---------------------------- MODULE Spec2Model ----------------------------
(***************************************************************************)
(* asmov/common, crate `dataset`: the ID type, the Meta envelope, the      *)
(* Memory / SQLite / PostgreSQL tiers and the StrategicDataset cascade.    *)
(*                                                                         *)
(* Conventions of the model                                                *)
(*  - Option<T> is a set with at most one element: None is {} and Some(x)  *)
(*    is {x}.                                                              *)
(*  - A Result (or a panic) is a record, see Ok / Err / Panic below.       *)
(*  - A panic (panic!, unwrap on None, todo!, unimplemented!) aborts the   *)
(*    program: no action is enabled afterwards.                            *)
(*  - The build modelled is the debug build with the `sqlite` and the      *)
(*    `postgres` features enabled (the build in which all the code         *)
(*    modelled here exists).                                               *)
(*  - sqlx and the SQL engines are outside the repository.  The model      *)
(*    lets the driver fail any statement (a Database error), and lets it   *)
(*    accept a statement with the effect its text names.                   *)
(***************************************************************************)
EXTENDS Integers, Sequences, FiniteSets, TLC

VARIABLES
    LOCAL_SERIAL,      \* static LOCAL_SERIAL: AtomicU64
    constructed,       \* has a StrategicDataset value been built
    options,           \* StrategicDataset.options
    memory_dataset,    \* StrategicDataset.memory_dataset : Option<MemoryDataset>
    sqlite_dataset,    \* StrategicDataset.sqlite_dataset : Option<SqliteDataset>
    postgres_dataset,  \* StrategicDataset.postgres_dataset : Option<PostgresDataset>
    last,              \* the last operation called and what it returned
    threads,           \* the generate_local_id call of each thread
    callers            \* the standard_insert_or_update call of each caller

vars == <<LOCAL_SERIAL, constructed, options, memory_dataset, sqlite_dataset,
          postgres_dataset, last, threads, callers>>

---------------------------------------------------------------------------
(* Bounds of the model *)

\* valid serials handed to the operations are 1 .. MaxSerial
MaxSerial == 1
\* the largest number of entries the Memory tier is filled to
MaxEntries == 2
\* the largest number of rows an SQL table is filled to
MaxRows == 2
\* connections of the SQLite pool
NumConns == 2
\* threads calling generate_local_id
NumThreads == 3
\* callers of standard_insert_or_update that share one pool
NumCallers == 2

---------------------------------------------------------------------------
(* model/id.rs *)

U64_MIN == 0
\* stands for u64::MAX: the largest serial, never reached by a counter here
U64_MAX == 1000000

Local(n) == [tag |-> "Local", local |-> n, auth |-> U64_MIN]
Authorative(n) == [tag |-> "Authorative", local |-> U64_MIN, auth |-> n]
Mutual(l, a) == [tag |-> "Mutual", local |-> l, auth |-> a]

LOCAL_USER == Local(1)

LOCAL_SERIAL_INIT == 101

debug_assertions == TRUE

\* a variant of ID equality that compares the variants field by field
IDEqDerived(x, y) == x = y

\* impl PartialEq<ID> for ID
IDEq(x, y) ==
    CASE x.tag = "Local" /\ y.tag = "Local" -> x.local = y.local
      [] x.tag = "Authorative" /\ y.tag = "Authorative" -> x.auth = y.auth
      [] x.tag = "Mutual" /\ y.tag = "Mutual" -> x.local = y.local \/ x.auth = y.auth
      [] x.tag = "Local" /\ y.tag = "Mutual" -> x.local = y.local
      [] x.tag = "Authorative" /\ y.tag = "Mutual" -> x.auth = y.auth
      [] x.tag = "Mutual" /\ y.tag = "Local" -> x.local = y.local
      [] x.tag = "Mutual" /\ y.tag = "Authorative" -> x.auth = y.auth
      [] OTHER -> FALSE

\* impl Hash for ID: the values fed to the hasher, in order
IDHash(x) ==
    CASE x.tag = "Local" -> <<1, x.local>>
      [] x.tag = "Authorative" -> <<2, x.auth>>
      [] x.tag = "Mutual" -> <<2, x.auth>>

\* ID::best
best(x) ==
    CASE x.tag = "Local" -> x.local
      [] x.tag = "Authorative" -> x.auth
      [] x.tag = "Mutual" -> x.auth

\* ID::sql (serials of the model stay far below 2^63, `as i64` changes nothing)
sql(x) == best(x)

Sentinel(n) == n = U64_MIN \/ n = U64_MAX

\* the guard of the debug-only Mutual arm of valid / best_valid_sql / into_option
MutualPanics(x) ==
    /\ debug_assertions
    /\ x.tag = "Mutual"
    /\ (Sentinel(x.local) \/ Sentinel(x.auth))

\* a variant of ID::into_option that takes a reserved id for a usable one
into_option_unreserved(x) ==
    CASE x.tag = "Authorative" /\ x.auth = U64_MIN -> "None"
      [] x.tag = "Authorative" /\ x.auth # U64_MIN -> "Some"
      [] x.tag = "Local" /\ x.local = U64_MIN -> "None"
      [] x.tag = "Local" /\ x.local # U64_MIN -> "Some"
      [] x.tag = "Mutual" /\ MutualPanics(x) -> "panic"
      [] x.tag = "Mutual" /\ ~MutualPanics(x) -> "Some"

\* ID::into_option: "None", "Reserved", "Some" or "panic"
into_option(x) ==
    CASE x.tag = "Authorative" /\ x.auth = U64_MIN -> "None"
      [] x.tag = "Authorative" /\ x.auth = U64_MAX -> "Reserved"
      [] x.tag = "Authorative" /\ ~Sentinel(x.auth) -> "Some"
      [] x.tag = "Local" /\ x.local = U64_MIN -> "None"
      [] x.tag = "Local" /\ x.local = U64_MAX -> "Reserved"
      [] x.tag = "Local" /\ ~Sentinel(x.local) -> "Some"
      [] x.tag = "Mutual" /\ MutualPanics(x) -> "panic"
      [] x.tag = "Mutual" /\ ~MutualPanics(x) -> "Some"

\* a variant of ID::valid that takes only MIN for a sentinel
validAboveMin(x) ==
    CASE x.tag = "Authorative" -> IF x.auth = U64_MIN THEN "false" ELSE "true"
      [] x.tag = "Local" -> IF x.local = U64_MIN THEN "false" ELSE "true"
      [] x.tag = "Mutual" /\ MutualPanics(x) -> "panic"
      [] x.tag = "Mutual" /\ ~MutualPanics(x) -> "true"

\* ID::valid: "true", "false" or "panic"
valid(x) ==
    CASE x.tag = "Authorative" -> IF Sentinel(x.auth) THEN "false" ELSE "true"
      [] x.tag = "Local" -> IF Sentinel(x.local) THEN "false" ELSE "true"
      [] x.tag = "Mutual" /\ MutualPanics(x) -> "panic"
      [] x.tag = "Mutual" /\ ~MutualPanics(x) -> "true"

\* ID::best_valid_sql as an Option<i64>; a panicking Mutual is not asked here
best_valid_sql(x) ==
    CASE x.tag = "Authorative" -> IF Sentinel(x.auth) THEN {} ELSE {x.auth}
      [] x.tag = "Local" -> IF Sentinel(x.local) THEN {} ELSE {x.local}
      [] x.tag = "Mutual" -> {x.auth}

\* ID::best_valid_sql: "None", "Some" or "panic"
best_valid_sql_outcome(x) ==
    CASE MutualPanics(x) -> "panic"
      [] ~MutualPanics(x) /\ best_valid_sql(x) = {} -> "None"
      [] ~MutualPanics(x) /\ best_valid_sql(x) # {} -> "Some"

\* ID::authorative as an Option<u64>
authorative(x) ==
    CASE x.tag = "Authorative" -> {x.auth}
      [] x.tag = "Mutual" -> {x.auth}
      [] OTHER -> {}

\* ID::local as an Option<u64>
local(x) ==
    CASE x.tag = "Local" -> {x.local}
      [] x.tag = "Mutual" -> {x.local}
      [] OTHER -> {}

---------------------------------------------------------------------------
(* The ids, payloads and models handed to the operations *)

ValidSerials == 1 .. MaxSerial

\* ids a caller passes: every Local and Authorative id over the sentinels and
\* the valid serials, the id MemoryDataset::new generates, and the Mutual ids
\* of two valid serials (a Mutual id with a sentinel is a programming error)
IdInputs ==
    {Local(n) : n \in ValidSerials \cup {U64_MIN, U64_MAX, LOCAL_SERIAL_INIT}}
    \cup {Authorative(n) : n \in ValidSerials \cup {U64_MIN, U64_MAX}}
    \cup {Mutual(1, a) : a \in ValidSerials}

ValidIdInputs == {x \in IdInputs : valid(x) = "true"}

Texts == {"Hello, world!", "Hello, universe!"}

---------------------------------------------------------------------------
(* model/meta.rs and the test model ImplModel *)

\* Meta built by MetaBuilder: hashcode defaults to 0, modelled as <<>>
MetaOf(id) ==
    [id |-> id, user_id |-> LOCAL_USER, time_created |-> 0, time_modified |-> 0,
     hashcode |-> <<>>]

\* a digest that also feeds the stored hashcode to the hasher
calculate_hash_stored(m) ==
    <<IDHash(m.meta.id), IDHash(m.meta.user_id), m.meta.time_created,
      m.meta.time_modified, m.text, m.num, m.toggle, m.timestamp,
      m.meta.hashcode>>

\* derived Hash of Meta: id, user_id, time_created and time_modified are fed
\* to the hasher, hashcode is ignored
MetaHash(meta) ==
    <<IDHash(meta.id), IDHash(meta.user_id), meta.time_created,
      meta.time_modified>>

\* calculate_hash over the derived Hash of the model: Meta feeds id, user_id,
\* time_created, time_modified (hashcode is ignored), then the model's fields
calculate_hash(m) ==
    <<IDHash(m.meta.id), IDHash(m.meta.user_id), m.meta.time_created,
      m.meta.time_modified, m.text, m.num, m.toggle, m.timestamp>>

\* MetaModel::rehash: the entity after self.meta_mut().hashcode is assigned
rehash(m) == [m EXCEPT !.meta.hashcode = calculate_hash(m)]

\* MetaModel::rehashed: rehash on the entity moved in, which is returned
rehashed(m) == rehash(m)

\* fixture_model, with the id, the text and the toggle as parameters
fixture_model(id, text, toggle) ==
    rehashed([meta |-> MetaOf(id), text |-> text, num |-> 42, toggle |-> toggle,
              timestamp |-> 0])

\* derived PartialEq of Meta (hashcode ignored, ids compared by IDEq)
MetaEq(a, b) ==
    /\ IDEq(a.id, b.id)
    /\ IDEq(a.user_id, b.user_id)
    /\ a.time_created = b.time_created
    /\ a.time_modified = b.time_modified

\* derived PartialEq of ImplModel
ModelEq(a, b) ==
    /\ MetaEq(a.meta, b.meta)
    /\ a.text = b.text
    /\ a.num = b.num
    /\ a.toggle = b.toggle
    /\ a.timestamp = b.timestamp

ModelInputs == {fixture_model(id, t, TRUE) : id \in IdInputs, t \in Texts}

---------------------------------------------------------------------------
(* Results *)

NoResult ==
    [op |-> "none", tier |-> "none", id |-> {}, arg |-> {}, kind |-> "none",
     some |-> {}, rid |-> {}, err |-> "", consulted |-> <<>>, fault |-> {},
     removed |-> {}]

\* Ok(Option<Model>) of get / take
OkModel(s) == [kind |-> "Ok", some |-> s, rid |-> {}, err |-> ""]
\* Ok(ID) / Ok(Option<ID>) of put
OkId(s) == [kind |-> "Ok", some |-> {}, rid |-> s, err |-> ""]
\* Ok(())
OkUnit == [kind |-> "Ok", some |-> {}, rid |-> {}, err |-> ""]
\* Err(Error::Database(msg))
ErrDatabase(msg) == [kind |-> "Err", some |-> {}, rid |-> {}, err |-> msg]
Panic(msg) == [kind |-> "panic", some |-> {}, rid |-> {}, err |-> msg]


---------------------------------------------------------------------------
(* The Memory tier: FxHashMap<ID, Model>                                   *)
(* A map is a set of entries [key, value].  A lookup finds the entry whose *)
(* key hashes like the id and compares equal to it (hashes are taken as    *)
(* collision-free over the values fed to the hasher).                      *)

MapFind(map, id) ==
    {e \in map : IDHash(e.key) = IDHash(id) /\ IDEq(e.key, id)}

\* HashMap::get
MapGet(map, id) == {e.value : e \in MapFind(map, id)}

\* HashMap::insert: an entry found keeps its key and takes the new value
MapInsert(map, id, model) ==
    IF MapFind(map, id) # {}
    THEN {IF e \in MapFind(map, id) THEN [e EXCEPT !.value = model] ELSE e : e \in map}
    ELSE map \cup {[key |-> id, value |-> model]}

\* HashMap::remove
MapRemove(map, id) == map \ MapFind(map, id)

\* the timespan MemoryDataset::new stores under a freshly generated id
NewTimespan(id) ==
    rehashed([meta |-> MetaOf(id), text |-> "test", num |-> 0, toggle |-> TRUE,
              timestamp |-> 0])

\* MemoryDataset::new, given the serial generate_local_id returned
MemoryDatasetNew(serial) ==
    MapInsert({}, Local(serial), NewTimespan(Local(serial)))

\* DatasetModel<MemoryDataset>::dataset_get
MemoryDatasetGet(map, id) == OkModel(MapGet(map, id))

\* DatasetModel<MemoryDataset>::dataset_put: the id returned
MemoryDatasetPutResult(model) == OkId({model.meta.id})

\* DatasetModel<MemoryDataset>::dataset_put: the map afterwards
MemoryDatasetPutMap(map, model) == MapInsert(map, model.meta.id, model)

\* a variant of dataset_delete that empties the map
MemoryDatasetDeleteMapClear(map, id) == {}

\* DatasetModel<ImplMemoryDataset>::dataset_delete: the map afterwards
MemoryDatasetDeleteMap(map, id) == MapRemove(map, id)

\* a variant of dataset_take that returns nothing
MemoryDatasetTakeNothing(map, id) == OkModel({})

\* DatasetModelDirect<ImplMemoryDataset>::dataset_take
MemoryDatasetTake(map, id) == OkModel(MapGet(map, id))

---------------------------------------------------------------------------
(* The SQL tiers                                                           *)
(* A table is a set of rows; a nullable column is an Option.  The columns  *)
(* are those of the Meta envelope and of the model, plus local_id.         *)

Conns == 1 .. NumConns

\* a row another writer of the database stored, every column set
SeedRow(local_id, id, text) ==
    [local_id |-> local_id, id |-> {id}, user_id |-> 1, time_created |-> 0,
     time_modified |-> 0,
     hashcode |-> {calculate_hash(fixture_model(Authorative(id), text, TRUE))},
     text |-> text,
     num |-> 42, toggle |-> 1, timestamp |-> 0]

\* sqlx::FromRow for Meta and for ImplModel: can the row be decoded
\* (a NULL read into a non-Option i64 is a decode error)
FromRowDecodes(row) == row.id # {} /\ row.hashcode # {}

\* sqlx::FromRow for Meta and for ImplModel.  ID::Online is the name an
\* earlier revision gave the authoritative variant; `toggle` is read from
\* the column "num".
FromRow(row) ==
    [meta |-> [id |-> Authorative(CHOOSE n \in row.id : TRUE),
               user_id |-> Authorative(row.user_id),
               time_created |-> row.time_created,
               time_modified |-> row.time_modified,
               hashcode |-> CHOOSE h \in row.hashcode : TRUE],
     text |-> row.text, num |-> row.num, toggle |-> (row.num # 0),
     timestamp |-> row.timestamp]

\* a variant of FetchOneOutcome that reports "row not found" as an error
FetchOneOutcomeStrict(matched, fault, tier) ==
    IF fault \/ matched = {} THEN ErrDatabase(tier)
    ELSE LET row == CHOOSE r \in matched : TRUE IN
         IF FromRowDecodes(row) THEN OkModel({FromRow(row)}) ELSE ErrDatabase(tier)

\* a variant of FetchOneOutcome that swallows a driver error as a miss
FetchOneOutcomeSwallow(matched, fault, tier) ==
    IF fault \/ matched = {} THEN OkModel({})
    ELSE LET row == CHOOSE r \in matched : TRUE IN
         IF FromRowDecodes(row) THEN OkModel({FromRow(row)}) ELSE OkModel({})

\* the outcome mapping at the end of standard_get, for the rows the SELECT
\* matched (LIMIT 1) and a driver that failed or not
FetchOneOutcome(matched, fault, tier) ==
    IF fault THEN ErrDatabase(tier)
    ELSE IF matched = {} THEN OkModel({})
    ELSE LET row == CHOOSE r \in matched : TRUE IN
         IF FromRowDecodes(row) THEN OkModel({FromRow(row)}) ELSE ErrDatabase(tier)

\* the rows `SELECT * FROM table WHERE column = ?` matches, ? bound to v
SelectWhere(rows, column, v) ==
    IF column = "id" THEN {r \in rows : r.id = {v}}
    ELSE {r \in rows : r.local_id = v}

\* M::SCHEMA_NAME of the test model
SCHEMA_NAME == "schema_name"

\* FIELD_ID and FIELD_LOCAL_ID of the PostgreSQL driver
FIELD_ID == "id"
FIELD_LOCAL_ID == "local_id"

\* the rows a statement [table, column, bound, limit] selects: those of the
\* table whose column equals the bound value, cut down to the limit of one
SelectRows(db, stmt) ==
    LET matched == SelectWhere(db.rows, stmt.column, stmt.bound) IN
    IF matched = {} THEN {} ELSE {CHOOSE r \in matched : TRUE}

\* a SELECT that filters on the id column whatever the variant of the id
SqliteSelectById(id) ==
    [table |-> SCHEMA_NAME, column |-> "id", bound |-> sql(id), limit |-> 1]

\* the statement SqliteDataset::standard_get builds for an id it accepts:
\* "SELECT * FROM {table} WHERE id = ? LIMIT 1" for Authorative and Mutual,
\* "... WHERE local_id = ? LIMIT 1" for Local, with id.sql() bound
SqliteSelect(id) ==
    [table |-> SCHEMA_NAME,
     column |-> IF id.tag = "Local" THEN "local_id" ELSE "id",
     bound |-> sql(id), limit |-> 1]

\* the statement PostgresDataset::standard_get builds for an id it accepts:
\* "SELECT * FROM {table} WHERE {id_field} = ? LIMIT 1", with the serial the
\* match arm took from the id bound
PostgresSelect(id) ==
    [table |-> SCHEMA_NAME,
     column |-> IF id.tag = "Local" THEN FIELD_LOCAL_ID ELSE FIELD_ID,
     bound |-> IF id.tag = "Local" THEN id.local ELSE id.auth, limit |-> 1]

\* SqliteDataset.local, hardcoded to true
SqliteLocal == TRUE

\* SqliteDataset::standard_get
SqliteStandardGet(db, id, fault) ==
    LET io == into_option(id) IN
    CASE io = "panic" -> Panic("Mutual ID should have valid local and authorative IDs")
      [] io = "None" -> Panic("Cannot SQLite SELECT for an invalid ID")
      [] io = "Reserved" -> Panic("Cannot SQLite INSERT or UPDATE for a reserved ID")
      [] io = "Some" /\ id.tag = "Local" /\ ~SqliteLocal ->
            Panic("Cannot SQLite SELECT for a local ID from a non-local dataset")
      [] io = "Some" /\ id.tag = "Local" /\ SqliteLocal ->
            FetchOneOutcome(SelectRows(db, SqliteSelect(id)), fault, "sqlite")
      [] io = "Some" /\ id.tag # "Local" ->
            FetchOneOutcome(SelectRows(db, SqliteSelect(id)), fault, "sqlite")

\* PostgresDataset.authorative, hardcoded to true
PostgresAuthorative == TRUE

\* PostgresDataset::standard_get
PostgresStandardGet(db, id, fault) ==
    LET io == into_option(id) IN
    CASE io = "panic" -> Panic("Mutual ID should have valid local and authorative IDs")
      [] io = "None" -> Panic("Cannot PostgreSQL SELECT for an invalid ID")
      [] io = "Reserved" -> Panic("Cannot PostgreSQL INSERT or UPDATE for a reserved ID")
      [] io = "Some" /\ id.tag = "Local" /\ PostgresAuthorative ->
            Panic("Cannot PostgreSQL SELECT for a local ID from an authorative dataset")
      [] io = "Some" /\ id.tag = "Local" /\ ~PostgresAuthorative ->
            FetchOneOutcome(SelectRows(db, PostgresSelect(id)), fault, "postgres")
      [] io = "Some" /\ id.tag # "Local" ->
            FetchOneOutcome(SelectRows(db, PostgresSelect(id)), fault, "postgres")

\* ToArguments::to_arguments with SqlxArgumentsExtended::finish_args: the
\* values bound, in order, and the argument count reported (the capacity)
to_arguments(model) ==
    [values |-> <<model.text, model.num, model.toggle, model.timestamp,
                  sql(model.meta.user_id), model.meta.time_created,
                  model.meta.time_modified>>
                \o (IF best_valid_sql(model.meta.id) # {}
                    THEN <<CHOOSE n \in best_valid_sql(model.meta.id) : TRUE>>
                    ELSE <<>>),
     num_args |-> 8]

\* the statement standard_insert_or_update builds: its form, the number of
\* `?` in it and need_id; "panic" for an id it refuses
InsertOrUpdateStatement(model) ==
    LET io == into_option(model.meta.id)
        n == to_arguments(model).num_args IN
    CASE io = "None" -> [form |-> "INSERT", placeholders |-> n, need_id |-> TRUE]
      [] io = "Some" /\ model.meta.id.tag = "Local" /\ debug_assertions /\ ~SqliteLocal ->
            [form |-> "panic", placeholders |-> 0, need_id |-> FALSE]
      [] io = "Some" /\ ~(model.meta.id.tag = "Local" /\ debug_assertions /\ ~SqliteLocal) ->
            [form |-> "UPSERT", placeholders |-> n + n + 1, need_id |-> FALSE]
      [] io = "Reserved" -> [form |-> "panic", placeholders |-> 0, need_id |-> FALSE]
      [] io = "panic" -> [form |-> "panic", placeholders |-> 0, need_id |-> FALSE]

\* the rowid SQLite gives a row inserted without one
NextRowid(rows) ==
    IF rows = {} THEN 1
    ELSE 1 + (CHOOSE n \in {r.local_id : r \in rows} :
                 \A r \in rows : r.local_id <= n)

\* the row a statement writes from the values bound: the columns the values
\* are meant for are set, the others (hashcode; id when none is bound) NULL
RowOfArguments(local_id, values) ==
    [local_id |-> local_id,
     id |-> IF Len(values) >= 8 THEN {values[8]} ELSE {},
     user_id |-> values[5], time_created |-> values[6], time_modified |-> values[7],
     hashcode |-> {}, text |-> values[1], num |-> values[2],
     toggle |-> IF values[3] THEN 1 ELSE 0, timestamp |-> values[4]]

\* the database after the driver accepted the statement on connection c:
\* INSERT adds a row; the upsert updates the row in conflict on `id`, or adds one
ExecuteAccepted(db, stmt, values, c) ==
    LET conflict == IF stmt.form = "UPSERT" /\ Len(values) >= 8
                    THEN {r \in db.rows : r.id = {values[8]}} ELSE {}
        rowid == NextRowid(db.rows) IN
    IF conflict # {}
    THEN [db EXCEPT !.rows =
            {IF r \in conflict
             THEN [RowOfArguments(r.local_id, values) EXCEPT !.hashcode = r.hashcode]
             ELSE r : r \in db.rows}]
    ELSE [rows |-> db.rows \cup {RowOfArguments(rowid, values)},
          last_insert_rowid |-> [db.last_insert_rowid EXCEPT ![c] = rowid]]

\* SqliteDataset::standard_insert_or_update: the database afterwards.
\* f1: the driver fails the statement; c1: the connection that runs it
InsertOrUpdateDb(db, model, f1, c1) ==
    LET stmt == InsertOrUpdateStatement(model) IN
    IF stmt.form = "panic" \/ f1 THEN db
    ELSE ExecuteAccepted(db, stmt, to_arguments(model).values, c1)

\* SqliteDataset::standard_insert_or_update: what it returns.
\* f2: the driver fails `SELECT last_insert_rowid()`; c2: the connection
\* the pool hands to that second query; dbAfter: the database after the first
InsertOrUpdateResult(dbAfter, model, f1, f2, c2) ==
    LET stmt == InsertOrUpdateStatement(model) IN
    IF stmt.form = "panic" THEN Panic("Cannot SQLite INSERT or UPDATE for this ID")
    ELSE IF f1 THEN ErrDatabase("sqlite")
    ELSE IF stmt.need_id
         THEN IF f2 THEN ErrDatabase("sqlite")
              ELSE OkId({Local(dbAfter.last_insert_rowid[c2])})
         ELSE OkId({})


---------------------------------------------------------------------------
(* The StrategicDataset *)

DatasetType == {"None", "Memory", "Sqlite", "Backend", "Postgres"}

\* StrategicDatasetOptions::default
DefaultOptions ==
    [online |-> FALSE, strategic_order |-> <<"Memory", "None", "None", "None">>]

\* a result with the tiers consulted so far
WithConsulted(r, consulted) ==
    [kind |-> r.kind, some |-> r.some, rid |-> r.rid, err |-> r.err,
     consulted |-> consulted]

\* a variant of Advances that also goes on after an error
AdvancesPastErrors(r) == r.some = {}

\* `if let Some(model) = ...dataset_get(dataset, id)? { return Ok(Some(model)) }`:
\* the loop goes on to the next tier only after Ok(None); `?` returns an Err
Advances(r) == r.kind = "Ok" /\ r.some = {}

\* a variant of TierStep in which an unsupported tier kind is passed over
TierStepLenient(kind, mem, sq, pg, id, fs, fp) ==
    CASE kind = "Memory" ->
            IF mem = {} THEN [act |-> "skip", r |-> NoResult]
            ELSE [act |-> "get", r |-> MemoryDatasetGet(CHOOSE m \in mem : TRUE, id)]
      [] kind = "Sqlite" ->
            IF sq = {} THEN [act |-> "skip", r |-> NoResult]
            ELSE [act |-> "get",
                  r |-> SqliteStandardGet(CHOOSE d \in sq : TRUE, id, fs)]
      [] kind = "Postgres" ->
            IF pg = {} THEN [act |-> "skip", r |-> NoResult]
            ELSE [act |-> "get",
                  r |-> PostgresStandardGet(CHOOSE d \in pg : TRUE, id, fp)]
      [] kind = "None" -> [act |-> "break", r |-> NoResult]
      [] kind = "Backend" -> [act |-> "skip", r |-> NoResult]

\* one arm of the match in DatasetModel<StrategicDataset>::dataset_get:
\* what the loop does at a position holding `kind`.
\* mem, sq, pg: the three slots; fs, fp: the SQLite / PostgreSQL driver fails
TierStep(kind, mem, sq, pg, id, fs, fp) ==
    CASE kind = "Memory" ->
            IF mem = {} THEN [act |-> "panic", r |-> Panic("unwrap on a None value")]
            ELSE [act |-> "get", r |-> MemoryDatasetGet(CHOOSE m \in mem : TRUE, id)]
      [] kind = "Sqlite" ->
            IF sq = {} THEN [act |-> "skip", r |-> NoResult]
            ELSE [act |-> "get",
                  r |-> SqliteStandardGet(CHOOSE d \in sq : TRUE, id, fs)]
      [] kind = "Postgres" ->
            IF pg = {} THEN [act |-> "skip", r |-> NoResult]
            ELSE [act |-> "get",
                  r |-> PostgresStandardGet(CHOOSE d \in pg : TRUE, id, fp)]
      [] kind = "None" -> [act |-> "break", r |-> NoResult]
      [] kind = "Backend" -> [act |-> "panic", r |-> Panic("Unsupported dataset type")]

\* the loop of DatasetModel<StrategicDataset>::dataset_get from position i on
RECURSIVE CascadeFrom(_, _, _, _, _, _, _, _, _)
CascadeFrom(i, consulted, order, mem, sq, pg, id, fs, fp) ==
    IF i > Len(order) THEN WithConsulted(OkModel({}), consulted)
    ELSE
    LET s == TierStep(order[i], mem, sq, pg, id, fs, fp)
        next(c) == CascadeFrom(i + 1, c, order, mem, sq, pg, id, fs, fp)
    IN
    CASE s.act = "break" -> WithConsulted(OkModel({}), consulted)
      [] s.act = "panic" -> WithConsulted(s.r, consulted)
      [] s.act = "skip" -> next(consulted)
      [] s.act = "get" ->
            IF Advances(s.r) THEN next(Append(consulted, order[i]))
            ELSE WithConsulted(s.r, Append(consulted, order[i]))

\* a sequence back to front
Reversed(seq) == [k \in 1 .. Len(seq) |-> seq[Len(seq) + 1 - k]]

\* a variant of dataset_get that walks strategic_order from its last position
StrategicDatasetGetBackwards(order, mem, sq, pg, id, fs, fp) ==
    CascadeFrom(1, <<>>, Reversed(order), mem, sq, pg, id, fs, fp)

\* DatasetModel<StrategicDataset>::dataset_get
StrategicDatasetGet(order, mem, sq, pg, id, fs, fp) ==
    CascadeFrom(1, <<>>, order, mem, sq, pg, id, fs, fp)

\* StrategicGet::strategic_get: self.memory_dataset.as_ref().unwrap(), then
\* dataset_get of the Memory tier; the walk over strategic_order is commented
\* out
strategic_get(mem, id) ==
    IF mem = {} THEN Panic("called Option::unwrap() on a None value")
    ELSE MemoryDatasetGet(CHOOSE m \in mem : TRUE, id)

\* DatasetModel<StrategicDataset>::dataset_put: todo!()
StrategicDatasetPut(model) == Panic("not yet implemented")

---------------------------------------------------------------------------
(* The Local serial generator *)

Threads == 1 .. NumThreads

\* a thread that has not called generate_local_id.  pc: where the thread's
\* call is; serial: what fetch_add returned; after: the threads whose call
\* had returned when this call started; seed: the value the counter was
\* last reseeded with when fetch_add ran
NotCalled == [pc |-> "idle", serial |-> {}, after |-> {}, seed |-> {}]

\* a variant of fetch_add that leaves the counter as it is
FetchKeep(counter) == [returned |-> counter, counter |-> counter]

\* AtomicU64::fetch_add(1, Ordering::Relaxed): one atomic read-modify-write
FetchAdd(counter) == [returned |-> counter, counter |-> counter + 1]

---------------------------------------------------------------------------
(* Concurrent callers of standard_insert_or_update *)

Callers == 1 .. NumCallers

\* a caller that has no call under way.  pc: where its call is; arg: the
\* model; conn: the connection its statement ran on; inserted: the rowid its
\* INSERT was given; result: what the call returned
NotPutting ==
    [pc |-> "idle", arg |-> {}, conn |-> {}, inserted |-> {}, result |-> {}]

---------------------------------------------------------------------------
(* Initial state: the process has started, no dataset is built yet *)

Init ==
    /\ LOCAL_SERIAL = LOCAL_SERIAL_INIT
    /\ constructed = FALSE
    /\ options = DefaultOptions
    /\ memory_dataset = {}
    /\ sqlite_dataset = {}
    /\ postgres_dataset = {}
    /\ last = NoResult
    /\ threads = [t \in Threads |-> NotCalled]
    /\ callers = [k \in Callers |-> NotPutting]

Running == constructed /\ last.kind # "panic"

\* the drivers that fail during a call
Failing(tier, fault) == IF fault THEN {tier} ELSE {}

\* the record of a call: the operation, its input, what it returned, the
\* tiers a cascade consulted, the drivers that failed; `removed` is what
\* HashMap::remove took out of the map during a delete or a take
Called(op, tier, id, arg, r, consulted, fault) ==
    [op |-> op, tier |-> tier, id |-> id, arg |-> arg, kind |-> r.kind,
     some |-> r.some, rid |-> r.rid, err |-> r.err, consulted |-> consulted,
     fault |-> fault, removed |-> {}]

\* an SqliteDataset over a database holding `rows`
SqliteDatasetNew(rows) ==
    [rows |-> rows, last_insert_rowid |-> [c \in Conns |-> 0]]

\* a PostgresDataset over a database holding `rows`
PostgresDatasetNew(rows) == [rows |-> rows]

---------------------------------------------------------------------------
(* Construction *)

\* StrategicDataset::new_offline
NewOffline ==
    /\ ~constructed
    /\ constructed' = TRUE
    /\ options' = DefaultOptions
    /\ memory_dataset' = {MemoryDatasetNew(LOCAL_SERIAL)}
    /\ LOCAL_SERIAL' = LOCAL_SERIAL + 1
    /\ UNCHANGED <<callers, threads>>
    /\ sqlite_dataset' = {}
    /\ postgres_dataset' = {}
    /\ last' = Called("new_offline", "strategic", {}, {}, OkUnit, <<>>, {})

\* StrategicDataset::new_online
NewOnline ==
    /\ ~constructed
    /\ constructed' = TRUE
    /\ options' = [DefaultOptions EXCEPT !.online = TRUE]
    /\ memory_dataset' = {MemoryDatasetNew(LOCAL_SERIAL)}
    /\ LOCAL_SERIAL' = LOCAL_SERIAL + 1
    /\ UNCHANGED <<callers, threads>>
    /\ sqlite_dataset' = {}
    /\ postgres_dataset' = {}
    /\ last' = Called("new_online", "strategic", {}, {}, OkUnit, <<>>, {})

\* the strategic orders a StrategicDataset is configured with here
Orders ==
    { <<"Memory", "None", "None", "None">>,
      <<"Memory", "Sqlite", "None", "None">>,
      <<"Sqlite", "Memory", "None", "None">>,
      <<"Memory", "Sqlite", "Postgres", "None">>,
      <<"Postgres", "Sqlite", "Memory", "None">>,
      <<"Sqlite", "Postgres", "None", "None">>,
      <<"Memory", "None", "Sqlite", "None">>,
      <<"None", "Memory", "None", "None">>,
      <<"Memory", "Backend", "None", "None">>,
      <<"Backend", "Memory", "None", "None">>,
      <<"Sqlite", "Postgres", "Memory", "Backend">>,
      <<"Memory", "Postgres", "Sqlite", "Memory">> }

\* what the SQLite / PostgreSQL database may already hold when the pool is
\* handed to SqliteDataset::new / PostgresDataset::new
SqliteSeeds == {{}, {SeedRow(1, 1, "Hello, world!")}}
PostgresSeeds == {{}, {SeedRow(1, 1, "Hello, universe!")}}

\* a StrategicDataset built field by field (the fields are pub(crate)):
\* any order, each slot empty or filled
Literal(order, mem, sq, pg) ==
    /\ ~constructed
    /\ constructed' = TRUE
    /\ options' = [online |-> TRUE, strategic_order |-> order]
    /\ memory_dataset' = IF mem THEN {MemoryDatasetNew(LOCAL_SERIAL)} ELSE {}
    /\ LOCAL_SERIAL' = IF mem THEN LOCAL_SERIAL + 1 ELSE LOCAL_SERIAL
    /\ UNCHANGED <<callers, threads>>
    /\ sqlite_dataset' = {SqliteDatasetNew(rows) : rows \in sq}
    /\ postgres_dataset' = {PostgresDatasetNew(rows) : rows \in pg}
    /\ last' = Called("literal", "strategic", {}, {}, OkUnit, <<>>, {})

Configure ==
    \E order \in Orders, mem \in BOOLEAN,
       sq \in {{}} \cup {{x} : x \in SqliteSeeds},
       pg \in {{}} \cup {{x} : x \in PostgresSeeds} :
        Literal(order, mem, sq, pg)

---------------------------------------------------------------------------
(* Operations of the Memory tier (the tier held in the memory slot) *)

\* Dataset::get on the Memory tier
MemoryGet(id) ==
    /\ Running
    /\ memory_dataset # {}
    /\ last' = Called("get", "memory", {id}, {},
                      MemoryDatasetGet(CHOOSE m \in memory_dataset : TRUE, id),
                      <<>>, {})
    /\ UNCHANGED <<callers, threads, LOCAL_SERIAL, constructed, options, memory_dataset,
                   sqlite_dataset, postgres_dataset>>

\* Dataset::put on the Memory tier
MemoryPut(model) ==
    /\ Running
    /\ memory_dataset # {}
    /\ LET map == CHOOSE m \in memory_dataset : TRUE IN
       /\ Cardinality(MemoryDatasetPutMap(map, model)) <= MaxEntries
       /\ memory_dataset' = {MemoryDatasetPutMap(map, model)}
    /\ last' = Called("put", "memory", {model.meta.id}, {model},
                      MemoryDatasetPutResult(model), <<>>, {})
    /\ UNCHANGED <<callers, threads, LOCAL_SERIAL, constructed, options, sqlite_dataset,
                   postgres_dataset>>

\* Dataset::delete on the Memory tier
MemoryDelete(id) ==
    /\ Running
    /\ memory_dataset # {}
    /\ LET map == CHOOSE m \in memory_dataset : TRUE IN
       /\ memory_dataset' = {MemoryDatasetDeleteMap(map, id)}
       /\ last' = [Called("delete", "memory", {id}, {}, OkUnit, <<>>, {})
                     EXCEPT !.removed = MapGet(map, id)]
    /\ UNCHANGED <<callers, threads, LOCAL_SERIAL, constructed, options, sqlite_dataset,
                   postgres_dataset>>

\* DatasetDirect::take on the Memory tier
MemoryTake(id) ==
    /\ Running
    /\ memory_dataset # {}
    /\ LET map == CHOOSE m \in memory_dataset : TRUE IN
       /\ memory_dataset' = {MapRemove(map, id)}
       /\ last' = [Called("take", "memory", {id}, {}, MemoryDatasetTake(map, id),
                          <<>>, {})
                     EXCEPT !.removed = MapGet(map, id)]
    /\ UNCHANGED <<callers, threads, LOCAL_SERIAL, constructed, options, sqlite_dataset,
                   postgres_dataset>>

---------------------------------------------------------------------------
(* Operations of the SQL tiers *)

\* Dataset::get on the SQLite tier
SqliteGet(id, fault) ==
    /\ Running
    /\ sqlite_dataset # {}
    /\ last' = Called("get", "sqlite", {id}, {},
                      SqliteStandardGet(CHOOSE d \in sqlite_dataset : TRUE, id, fault),
                      <<>>, Failing("sqlite", fault))
    /\ UNCHANGED <<callers, threads, LOCAL_SERIAL, constructed, options, memory_dataset,
                   sqlite_dataset, postgres_dataset>>

\* Dataset::put on the SQLite tier
SqlitePut(model, f1, c1, f2, c2) ==
    /\ Running
    /\ sqlite_dataset # {}
    /\ LET db == CHOOSE d \in sqlite_dataset : TRUE
           after == InsertOrUpdateDb(db, model, f1, c1) IN
       /\ Cardinality(after.rows) <= MaxRows
       /\ sqlite_dataset' = {after}
       /\ last' = Called("put", "sqlite", {model.meta.id}, {model},
                         InsertOrUpdateResult(after, model, f1, f2, c2),
                         <<>>, Failing("sqlite", f1 \/ f2))
    /\ UNCHANGED <<callers, threads, LOCAL_SERIAL, constructed, options, memory_dataset,
                   postgres_dataset>>

\* Dataset::delete on the SQLite tier: dataset_delete is todo!()
SqliteDelete(id) ==
    /\ Running
    /\ sqlite_dataset # {}
    /\ last' = Called("delete", "sqlite", {id}, {}, Panic("not yet implemented"),
                      <<>>, {})
    /\ UNCHANGED <<callers, threads, LOCAL_SERIAL, constructed, options, memory_dataset,
                   sqlite_dataset, postgres_dataset>>

\* Dataset::get_mut on an SQL tier: dataset_get_mut of
\* boil_sql_dataset_model_for_model is unimplemented!()
SqlGetMut(tier, id) ==
    /\ Running
    /\ tier \in {"sqlite", "postgres"}
    /\ (IF tier = "sqlite" THEN sqlite_dataset ELSE postgres_dataset) # {}
    /\ last' = Called("get_mut", tier, {id}, {},
                      Panic("not implemented: SQL datasets do not support mutable access"),
                      <<>>, {})
    /\ UNCHANGED <<callers, threads, LOCAL_SERIAL, constructed, options, memory_dataset,
                   sqlite_dataset, postgres_dataset>>

\* Dataset::get on the PostgreSQL tier
PostgresGet(id, fault) ==
    /\ Running
    /\ postgres_dataset # {}
    /\ last' = Called("get", "postgres", {id}, {},
                      PostgresStandardGet(CHOOSE d \in postgres_dataset : TRUE, id, fault),
                      <<>>, Failing("postgres", fault))
    /\ UNCHANGED <<callers, threads, LOCAL_SERIAL, constructed, options, memory_dataset,
                   sqlite_dataset, postgres_dataset>>

---------------------------------------------------------------------------
(* Operations of the StrategicDataset *)

\* Dataset::get on the StrategicDataset
StrategicGet(id, fs, fp) ==
    /\ Running
    /\ LET r == StrategicDatasetGet(options.strategic_order, memory_dataset,
                                    sqlite_dataset, postgres_dataset, id, fs, fp) IN
       last' = Called("get", "strategic", {id}, {}, r, r.consulted,
                      Failing("sqlite", fs) \cup Failing("postgres", fp))
    /\ UNCHANGED <<callers, threads, LOCAL_SERIAL, constructed, options, memory_dataset,
                   sqlite_dataset, postgres_dataset>>

\* StrategicGet::strategic_get called on the StrategicDataset
StrategicGetTrait(id) ==
    /\ Running
    /\ last' = Called("strategic_get", "strategic", {id}, {},
                      strategic_get(memory_dataset, id), <<>>, {})
    /\ UNCHANGED <<callers, threads, LOCAL_SERIAL, constructed, options, memory_dataset,
                   sqlite_dataset, postgres_dataset>>

\* Dataset::put on the StrategicDataset
StrategicPut(model) ==
    /\ Running
    /\ last' = Called("put", "strategic", {model.meta.id}, {model},
                      StrategicDatasetPut(model), <<>>, {})
    /\ UNCHANGED <<callers, threads, LOCAL_SERIAL, constructed, options, memory_dataset,
                   sqlite_dataset, postgres_dataset>>

---------------------------------------------------------------------------
(* The tiers on their own, as the tests build them *)

\* ImplMemoryDataset::default: the Memory tier alone, empty
MemoryDefault ==
    /\ ~constructed
    /\ constructed' = TRUE
    /\ memory_dataset' = {{}}
    /\ last' = Called("default", "memory", {}, {}, OkUnit, <<>>, {})
    /\ UNCHANGED <<callers, threads, LOCAL_SERIAL, options, sqlite_dataset, postgres_dataset>>

\* MemoryDataset::new: the Memory tier alone; it generates a Local id and
\* stores a timespan under it
MemoryNew ==
    /\ ~constructed
    /\ constructed' = TRUE
    /\ memory_dataset' = {MemoryDatasetNew(FetchAdd(LOCAL_SERIAL).returned)}
    /\ LOCAL_SERIAL' = FetchAdd(LOCAL_SERIAL).counter
    /\ last' = Called("new", "memory", {}, {}, OkUnit, <<>>, {})
    /\ UNCHANGED <<callers, threads, options, sqlite_dataset, postgres_dataset>>

\* SqliteDataset::new: the SQLite tier alone
SqliteNew(rows) ==
    /\ ~constructed
    /\ constructed' = TRUE
    /\ sqlite_dataset' = {SqliteDatasetNew(rows)}
    /\ last' = Called("new", "sqlite", {}, {}, OkUnit, <<>>, {})
    /\ UNCHANGED <<callers, threads, LOCAL_SERIAL, options, memory_dataset, postgres_dataset>>

\* PostgresDataset::new: the PostgreSQL tier alone
PostgresNew(rows) ==
    /\ ~constructed
    /\ constructed' = TRUE
    /\ postgres_dataset' = {PostgresDatasetNew(rows)}
    /\ last' = Called("new", "postgres", {}, {}, OkUnit, <<>>, {})
    /\ UNCHANGED <<callers, threads, LOCAL_SERIAL, options, memory_dataset, sqlite_dataset>>

---------------------------------------------------------------------------
(* Specifications *)

\* the models put into the Memory tier of a StrategicDataset
CascadeModels ==
    {fixture_model(id, "Hello, world!", TRUE) : id \in {Authorative(1), Mutual(1, 1)}}

\* the models put into the Memory tier on its own
MemoryModels ==
    {fixture_model(id, t, TRUE) :
        id \in {Local(LOCAL_SERIAL_INIT), Local(U64_MIN)}
               \cup {Authorative(n) : n \in ValidSerials}
               \cup {Mutual(1, n) : n \in ValidSerials},
        t \in Texts}

\* the models put into the SQLite tier on its own: an id of each state
\* (none, reserved, valid Local, valid Authorative, valid Mutual)
SqlModels ==
    {fixture_model(id, t, TRUE) :
        id \in {Local(U64_MIN), Local(U64_MAX), Local(LOCAL_SERIAL_INIT),
                Authorative(1), Mutual(1, 1)},
        t \in Texts}

\* does the driver fail: only asked where a driver is called
Faults(present) == IF present THEN BOOLEAN ELSE {FALSE}

\* the ids asked of the SQL tiers on their own: the ids put, the seeded row's
\* ids, and the sentinels of both variants
SqlIds ==
    {m.meta.id : m \in SqlModels}
    \cup {Local(1), Authorative(U64_MIN), Authorative(U64_MAX)}

DoMemoryGet == \E id \in IdInputs : MemoryGet(id)
\* the model a take just returned, altered as test_memory alters it:
\* `model_taken.text = "Hello, universe!"`, the hashcode left as it was
TakenAltered ==
    IF last.op = "take"
    THEN {[e EXCEPT !.text = "Hello, universe!"] : e \in last.some}
    ELSE {}

DoMemoryPut == \E m \in MemoryModels \cup TakenAltered : MemoryPut(m)
DoMemoryDelete == \E id \in IdInputs : MemoryDelete(id)
DoMemoryTake == \E id \in IdInputs : MemoryTake(id)
DoSqliteNew == \E rows \in SqliteSeeds : SqliteNew(rows)
DoSqliteGet == \E id \in SqlIds, fault \in BOOLEAN : SqliteGet(id, fault)
DoSqlitePut ==
    \E m \in SqlModels, f1 \in BOOLEAN :
      \E c1 \in IF f1 THEN {1} ELSE Conns,
         f2 \in Faults(~f1 /\ InsertOrUpdateStatement(m).need_id) :
        \E c2 \in IF ~f1 /\ ~f2 /\ InsertOrUpdateStatement(m).need_id
                  THEN Conns ELSE {1} :
          SqlitePut(m, f1, c1, f2, c2)
DoSqliteDelete == \E id \in SqlIds : SqliteDelete(id)
DoPostgresNew == \E rows \in PostgresSeeds : PostgresNew(rows)
DoPostgresGet == \E id \in SqlIds, fault \in BOOLEAN : PostgresGet(id, fault)
DoSqlGetMut == \E tier \in {"sqlite", "postgres"}, id \in SqlIds : SqlGetMut(tier, id)
DoStrategicGet ==
    \E id \in IdInputs, fs \in Faults(sqlite_dataset # {}),
       fp \in Faults(postgres_dataset # {}) : StrategicGet(id, fs, fp)
DoStrategicPut == \E m \in CascadeModels : StrategicPut(m)
DoCascadeMemoryPut == \E m \in CascadeModels : MemoryPut(m)

\* the StrategicDataset
Next ==
    \/ NewOffline
    \/ NewOnline
    \/ Configure
    \/ DoStrategicGet
    \/ DoStrategicPut
    \/ DoCascadeMemoryPut
    \/ DoMemoryGet
    \/ DoMemoryDelete
    \/ DoSqliteGet

Spec == Init /\ [][Next]_vars

\* the two ways to get from a StrategicDataset
DoStrategicGetTrait == \E id \in IdInputs : StrategicGetTrait(id)

NextStrategy ==
    \/ NewOffline
    \/ NewOnline
    \/ Configure
    \/ DoCascadeMemoryPut
    \/ DoStrategicGet
    \/ DoStrategicGetTrait

SpecStrategy == Init /\ [][NextStrategy]_vars

\* the Memory tier alone
NextMemory ==
    \/ MemoryDefault
    \/ DoMemoryGet
    \/ DoMemoryPut
    \/ DoMemoryDelete
    \/ DoMemoryTake

SpecMemory == Init /\ [][NextMemory]_vars

\* the SQL tiers alone
NextSql ==
    \/ DoSqliteNew
    \/ DoSqliteGet
    \/ DoSqlitePut
    \/ DoSqliteDelete
    \/ DoPostgresNew
    \/ DoPostgresGet
    \/ DoSqlGetMut

SpecSql == Init /\ [][NextSql]_vars

---------------------------------------------------------------------------
(* Operations of the Local serial generator *)

\* the serials init_local_id_generator is given: a persisted high-water mark
SeedSerials == {LOCAL_SERIAL_INIT + 1, LOCAL_SERIAL_INIT + 50}

\* init_local_id_generator(last_serial); `late`: a serial had been generated
\* before this or an earlier reseed
InitLocalIdGenerator(last_serial) ==
    /\ LOCAL_SERIAL' = last_serial
    /\ last' = [op |-> "init_local_id_generator", tier |-> "id", kind |-> "Ok",
                last_serial |-> last_serial,
                late |-> \/ \E t \in Threads : threads[t].serial # {}
                         \/ last.op = "init_local_id_generator" /\ last.late]
    /\ UNCHANGED <<callers, threads, constructed, options, memory_dataset,
                   sqlite_dataset, postgres_dataset>>

\* thread t calls generate_local_id
GenerateCall(t) ==
    /\ threads[t].pc = "idle"
    /\ threads' = [threads EXCEPT ![t].pc = "called",
                      ![t].after = {u \in Threads : threads[u].pc = "returned"}]
    /\ UNCHANGED <<LOCAL_SERIAL, constructed, options, memory_dataset,
                   sqlite_dataset, postgres_dataset, last, callers>>

\* thread t runs `LOCAL_SERIAL.fetch_add(1, Ordering::Relaxed)`
GenerateFetchAdd(t) ==
    /\ threads[t].pc = "called"
    /\ LOCAL_SERIAL' = FetchAdd(LOCAL_SERIAL).counter
    /\ threads' = [threads EXCEPT ![t].pc = "fetched",
                      ![t].serial = {FetchAdd(LOCAL_SERIAL).returned},
                      ![t].seed = IF last.op = "init_local_id_generator"
                                  THEN {last.last_serial} ELSE {}]
    /\ UNCHANGED <<constructed, options, memory_dataset, sqlite_dataset,
                   postgres_dataset, last, callers>>

\* generate_local_id returns ID::Local(serial) to thread t
GenerateReturn(t) ==
    /\ threads[t].pc = "fetched"
    /\ threads' = [threads EXCEPT ![t].pc = "returned"]
    /\ UNCHANGED <<LOCAL_SERIAL, constructed, options, memory_dataset,
                   sqlite_dataset, postgres_dataset, last, callers>>

DoInitLocalIdGenerator == \E s \in SeedSerials : InitLocalIdGenerator(s)
DoGenerateCall == \E t \in Threads : GenerateCall(t)
DoGenerateFetchAdd == \E t \in Threads : GenerateFetchAdd(t)
DoGenerateReturn == \E t \in Threads : GenerateReturn(t)

NextSerial ==
    \/ DoInitLocalIdGenerator
    \/ DoGenerateCall
    \/ DoGenerateFetchAdd
    \/ DoGenerateReturn

SpecSerial == Init /\ [][NextSerial]_vars

\* a dataset freshly constructed, the gets of it and the generator
NextFresh ==
    \/ MemoryNew
    \/ NewOffline
    \/ NewOnline
    \/ DoMemoryGet
    \/ DoStrategicGet
    \/ DoGenerateCall
    \/ DoGenerateFetchAdd
    \/ DoGenerateReturn

SpecFresh == Init /\ [][NextFresh]_vars

---------------------------------------------------------------------------
(* The ID type on its own *)

\* the serials of the ID values compared and classified: both sentinels and
\* valid serials, one more than the datasets are given
Serials == {U64_MIN, U64_MAX} \cup (1 .. (MaxSerial + 1))

\* every ID value over Serials
AllIds ==
    {Local(n) : n \in Serials} \cup {Authorative(n) : n \in Serials}
    \cup {Mutual(l, a) : l \in Serials, a \in Serials}

\* x == y, with hash(x) and hash(y)
IdCompare(x, y) ==
    /\ last.kind # "panic"
    /\ last' = [op |-> "eq", tier |-> "id", kind |-> "Ok", x |-> x, y |-> y,
                eq |-> IDEq(x, y), hash_x |-> IDHash(x), hash_y |-> IDHash(y)]
    /\ UNCHANGED <<callers, threads, LOCAL_SERIAL, constructed, options, memory_dataset,
                   sqlite_dataset, postgres_dataset>>

\* the operations of ID applied to x: authorative, local, best, valid,
\* into_option and best_valid_sql; a panic of one of them ends the process
IdClassify(x) ==
    /\ last.kind # "panic"
    /\ last' = [op |-> "classify", tier |-> "id",
                kind |-> IF "panic" \in {valid(x), into_option(x),
                                         best_valid_sql_outcome(x)}
                         THEN "panic" ELSE "Ok",
                x |-> x, authorative |-> authorative(x), local |-> local(x),
                best |-> best(x), valid |-> valid(x),
                into_option |-> into_option(x),
                best_valid_sql |-> best_valid_sql_outcome(x)]
    /\ UNCHANGED <<callers, threads, LOCAL_SERIAL, constructed, options, memory_dataset,
                   sqlite_dataset, postgres_dataset>>

\* the ids compared in chains of three: valid Local, Authorative and Mutual
\* ids over two serials
ChainIds ==
    {Local(1), Local(2), Authorative(1), Authorative(2),
     Mutual(1, 1), Mutual(1, 2), Mutual(2, 2)}

\* x == x, x == y, y == x, y == z and x == z
IdChain(x, y, z) ==
    /\ last.kind # "panic"
    /\ last' = [op |-> "chain", tier |-> "id", kind |-> "Ok",
                x |-> x, y |-> y, z |-> z,
                xx |-> IDEq(x, x), xy |-> IDEq(x, y), yx |-> IDEq(y, x),
                yz |-> IDEq(y, z), xz |-> IDEq(x, z)]
    /\ UNCHANGED <<callers, threads, LOCAL_SERIAL, constructed, options, memory_dataset,
                   sqlite_dataset, postgres_dataset>>

DoIdCompare == \E x \in AllIds, y \in AllIds : IdCompare(x, y)
DoIdChain == \E x \in ChainIds, y \in ChainIds, z \in ChainIds : IdChain(x, y, z)
DoIdClassify == \E x \in AllIds : IdClassify(x)

NextId ==
    \/ DoIdCompare
    \/ DoIdClassify
    \/ DoIdChain

SpecId == Init /\ [][NextId]_vars

---------------------------------------------------------------------------
(* Equality, hashing and rehashing of entities on their own *)

\* the timestamps of the entities compared
Times == {0, 1}

\* hashcodes an entity may hold before it is rehashed: the default of the
\* builder and the digests of two fixtures
Hashcodes ==
    {<<>>} \cup {calculate_hash(fixture_model(Local(1), t, TRUE)) : t \in Texts}

\* entities of one id over the timestamps, the texts and the hashcodes
EntityInputs ==
    {[meta |-> [MetaOf(Local(1)) EXCEPT !.time_created = tc,
                                        !.time_modified = tm, !.hashcode = h],
      text |-> t, num |-> 42, toggle |-> TRUE, timestamp |-> 0] :
        tc \in Times, tm \in Times, t \in Texts, h \in Hashcodes}

\* a == b and a.meta == b.meta, with the digests of both and of their metas
ModelCompare(a, b) ==
    /\ last.kind # "panic"
    /\ last' = [op |-> "model_eq", tier |-> "meta", kind |-> "Ok",
                a |-> a, b |-> b,
                eq |-> ModelEq(a, b), meta_eq |-> MetaEq(a.meta, b.meta),
                hash_a |-> calculate_hash(a), hash_b |-> calculate_hash(b),
                meta_hash_a |-> MetaHash(a.meta),
                meta_hash_b |-> MetaHash(b.meta)]
    /\ UNCHANGED <<callers, threads, LOCAL_SERIAL, constructed, options, memory_dataset,
                   sqlite_dataset, postgres_dataset>>

\* m.rehash() in place, m.rehashed() by value, rehash applied twice, and
\* rehash of the same entity holding the hashcode h beforehand
Rehash(m, h) ==
    /\ last.kind # "panic"
    /\ last' = [op |-> "rehash", tier |-> "meta", kind |-> "Ok", arg |-> m,
                in_place |-> rehash(m), by_value |-> rehashed(m),
                twice |-> rehash(rehash(m)),
                prior |-> h,
                other |-> rehash([m EXCEPT !.meta.hashcode = h])]
    /\ UNCHANGED <<callers, threads, LOCAL_SERIAL, constructed, options, memory_dataset,
                   sqlite_dataset, postgres_dataset>>

DoModelCompare == \E a \in EntityInputs, b \in EntityInputs : ModelCompare(a, b)
DoRehash == \E m \in EntityInputs, h \in Hashcodes : Rehash(m, h)

NextMeta ==
    \/ DoModelCompare
    \/ DoRehash

SpecMeta == Init /\ [][NextMeta]_vars

---------------------------------------------------------------------------
(* standard_insert_or_update step by step, for callers sharing the pool *)

\* the models the concurrent callers put: without id, and with a valid id
PoolModels ==
    {fixture_model(Local(U64_MIN), t, TRUE) : t \in Texts}
    \cup {fixture_model(Authorative(1), "Hello, world!", TRUE)}

\* caller k runs standard_insert_or_update up to the end of
\* `query.execute(&self.pool)`: the statement is built and runs on the
\* connection c1 the pool hands out; the driver fails it (f1) or not
PoolExecute(k, model, f1, c1) ==
    /\ Running
    /\ sqlite_dataset # {}
    /\ callers[k].pc = "idle"
    /\ LET db == CHOOSE d \in sqlite_dataset : TRUE
           stmt == InsertOrUpdateStatement(model)
           after == InsertOrUpdateDb(db, model, f1, c1) IN
       /\ Cardinality(after.rows) <= MaxRows
       /\ sqlite_dataset' = {after}
       /\ IF stmt.form = "panic"
          THEN /\ last' = Called("put", "sqlite", {model.meta.id}, {model},
                                 InsertOrUpdateResult(after, model, f1, FALSE, c1),
                                 <<>>, {})
               /\ UNCHANGED callers
          ELSE /\ callers' =
                     [callers EXCEPT ![k] =
                        IF ~f1 /\ stmt.need_id
                        THEN [pc |-> "executed", arg |-> {model}, conn |-> {c1},
                              inserted |-> {NextRowid(db.rows)}, result |-> {}]
                        ELSE [pc |-> "done", arg |-> {model}, conn |-> {c1},
                              inserted |-> {},
                              result |-> {InsertOrUpdateResult(after, model, f1,
                                                               FALSE, c1)}]]
               /\ UNCHANGED last
    /\ UNCHANGED <<threads, LOCAL_SERIAL, constructed, options, memory_dataset,
                   postgres_dataset>>

\* caller k, its INSERT accepted, runs `SELECT last_insert_rowid() as id`
\* with fetch_one(&self.pool) on the connection c2 the pool hands out, and
\* returns
PoolLastInsertRowid(k, f2, c2) ==
    /\ Running
    /\ callers[k].pc = "executed"
    /\ LET db == CHOOSE d \in sqlite_dataset : TRUE
           model == CHOOSE m \in callers[k].arg : TRUE IN
       callers' = [callers EXCEPT ![k].pc = "done", ![k].conn = {c2},
                      ![k].result = {InsertOrUpdateResult(db, model, FALSE, f2, c2)}]
    /\ UNCHANGED <<threads, LOCAL_SERIAL, constructed, options, memory_dataset,
                   sqlite_dataset, postgres_dataset, last>>

DoPoolExecute ==
    \E k \in Callers, m \in PoolModels, f1 \in BOOLEAN, c1 \in Conns :
        PoolExecute(k, m, f1, c1)
DoPoolLastInsertRowid ==
    \E k \in Callers, f2 \in BOOLEAN, c2 \in Conns : PoolLastInsertRowid(k, f2, c2)

NextPool ==
    \/ DoSqliteNew
    \/ DoPoolExecute
    \/ DoPoolLastInsertRowid

SpecPool == Init /\ [][NextPool]_vars

---------------------------------------------------------------------------
(* Strategic get: what each position of strategic_order holds in the        *)
(* current state, told from the slots and the stores alone                  *)

\* the last call was a strategic get
StrategicGetCalled == last.op = "get" /\ last.tier = "strategic"

\* the id the last call was made with
LastId == CHOOSE id \in last.id : TRUE

\* the first position holding the None sentinel (past the end when none does)
SentinelAt ==
    LET order == options.strategic_order
        at == {i \in 1 .. Len(order) : order[i] = "None"} IN
    IF at = {} THEN Len(order) + 1
    ELSE CHOOSE i \in at : \A j \in at : i <= j

\* the positions before the sentinel
Positions == 1 .. (SentinelAt - 1)

\* the slot of a tier kind is filled
SlotFilled(kind) ==
    CASE kind = "Memory" -> memory_dataset # {}
      [] kind = "Sqlite" -> sqlite_dataset # {}
      [] kind = "Postgres" -> postgres_dataset # {}
      [] OTHER -> FALSE

\* position i names a tier this instance holds
Consultable(i) == SlotFilled(options.strategic_order[i])

\* position i names an SQL tier this instance does not hold
EmptySqlSlot(i) ==
    /\ options.strategic_order[i] \in {"Sqlite", "Postgres"}
    /\ ~SlotFilled(options.strategic_order[i])

\* position i names Backend, or Memory while the memory slot is empty
Unusable(i) ==
    \/ options.strategic_order[i] = "Backend"
    \/ options.strategic_order[i] = "Memory" /\ memory_dataset = {}

\* what the tier at position i answers to get(id) on its own, the drivers
\* failing as they did during the last call
AnswerAt(i, id) ==
    LET kind == options.strategic_order[i] IN
    CASE kind = "Memory" -> MemoryDatasetGet(CHOOSE m \in memory_dataset : TRUE, id)
      [] kind = "Sqlite" ->
            SqliteStandardGet(CHOOSE d \in sqlite_dataset : TRUE, id,
                              "sqlite" \in last.fault)
      [] kind = "Postgres" ->
            PostgresStandardGet(CHOOSE d \in postgres_dataset : TRUE, id,
                                "postgres" \in last.fault)

\* the tier at position i answers a clean miss
MissesAt(i, id) ==
    Consultable(i) /\ AnswerAt(i, id).kind = "Ok" /\ AnswerAt(i, id).some = {}

\* the tiers held at the positions of `among`, in order
RECURSIVE HeldFrom(_, _)
HeldFrom(i, among) ==
    IF i > Len(options.strategic_order) THEN <<>>
    ELSE (IF i \in among /\ Consultable(i)
          THEN <<options.strategic_order[i]>> ELSE <<>>) \o HeldFrom(i + 1, among)

\* the tiers held before the sentinel, in order
Held == HeldFrom(1, Positions)

\* the positions of the tiers held before the sentinel, in order
HeldPositions ==
    LET RECURSIVE from(_)
        from(i) == IF i > Len(options.strategic_order) THEN <<>>
                   ELSE (IF i \in Positions /\ Consultable(i) THEN <<i>> ELSE <<>>)
                        \o from(i + 1)
    IN from(1)

\* C1: a strategic get consults the tiers it holds before the None sentinel
\* in the configured order and no others; every tier consulted before the
\* last one answered a clean miss; a hit is the answer of the last tier
\* consulted, so no tier after the hit is consulted; and Ok(None) is returned
\* only when every held tier before the sentinel was consulted and missed.
C1_CascadeInOrder ==
    StrategicGetCalled =>
        LET c == last.consulted IN
        /\ Len(c) <= Len(Held)
        /\ \A k \in 1 .. Len(c) : c[k] = Held[k]
        /\ \A k \in 1 .. (Len(c) - 1) : MissesAt(HeldPositions[k], LastId)
        /\ last.some # {} =>
              /\ Len(c) >= 1
              /\ AnswerAt(HeldPositions[Len(c)], LastId) = OkModel(last.some)
        /\ (last.kind = "Ok" /\ last.some = {}) =>
              /\ c = Held
              /\ \A k \in 1 .. Len(c) : MissesAt(HeldPositions[k], LastId)

\* C1 happens: the second of three held tiers hit, the third was not consulted
C1_Witness ==
    /\ StrategicGetCalled
    /\ last.some # {}
    /\ Len(last.consulted) = 2
    /\ Len(Held) = 3

\* C2: with the order [Memory, SQLite], after a strategic get that missed in
\* Memory and hit in SQLite the Memory tier holds the entity returned, so
\* that a direct Memory get of the id returns it (promotion)
C2_Promotion ==
    (/\ StrategicGetCalled
     /\ options.strategic_order = <<"Memory", "Sqlite", "None", "None">>
     /\ last.consulted = <<"Memory", "Sqlite">>
     /\ last.some # {}) =>
        MemoryDatasetGet(CHOOSE m \in memory_dataset : TRUE, LastId)
            = OkModel(last.some)

\* every position before i is passed: an SQL tier not held, or a clean miss
PassedBefore(i, id) ==
    \A j \in 1 .. (i - 1) : EmptySqlSlot(j) \/ MissesAt(j, id)

\* the tiers held at the positions up to i, in order
HeldUpTo(i) == HeldFrom(1, 1 .. i)

\* C3: when the first tier that does not answer a clean miss answers a
\* Database error, the strategic get returns that error and the tiers
\* consulted end with that tier.
C3_ErrorStopsCascade ==
    StrategicGetCalled =>
        \A i \in Positions :
            (/\ Consultable(i)
             /\ PassedBefore(i, LastId)
             /\ AnswerAt(i, LastId).kind = "Err") =>
                /\ last.kind = "Err"
                /\ last.err = AnswerAt(i, LastId).err
                /\ last.consulted = HeldUpTo(i)

\* C3 happens: a tier answered a Database error and a held tier after it was
\* not consulted
C3_Witness ==
    /\ StrategicGetCalled
    /\ last.kind = "Err"
    /\ Len(last.consulted) < Len(Held)

\* C4 as stated: when a position before the sentinel names a tier whose slot
\* is empty or the Backend kind, and every tier before it missed, the
\* strategic get aborts
C4_UnconfiguredAborts ==
    StrategicGetCalled =>
        \A i \in Positions :
            (~Consultable(i) /\ \A j \in 1 .. (i - 1) : MissesAt(j, LastId)) =>
                last.kind = "panic"

\* C4 amended: when the cascade reaches a position naming Backend, or
\* Memory while the memory slot is empty, the strategic get aborts without
\* consulting a further tier; an SQL tier whose slot is empty is passed over,
\* so that a cascade in which every position is passed returns Ok(None).
C4_UnusableAbortsEmptySqlSkipped ==
    StrategicGetCalled =>
        /\ \A i \in Positions :
              (Unusable(i) /\ PassedBefore(i, LastId)) =>
                  /\ last.kind = "panic"
                  /\ last.consulted = HeldUpTo(i - 1)
        /\ PassedBefore(SentinelAt, LastId) =>
              last.kind = "Ok" /\ last.some = {}

\* C4 happens: the cascade passed over an SQL tier with an empty slot and
\* aborted at a Backend position
C4_Witness ==
    /\ StrategicGetCalled
    /\ last.kind = "panic"
    /\ \E i \in Positions :
          /\ options.strategic_order[i] = "Backend"
          /\ PassedBefore(i, LastId)
          /\ \E j \in 1 .. (i - 1) : EmptySqlSlot(j)

\* the last call was a strategic put
StrategicPutCalled == last.op = "put" /\ last.tier = "strategic"

\* the Memory tier holds exactly the models of `some` under id
MemoryHolds(id, some) ==
    /\ memory_dataset # {}
    /\ MemoryDatasetGet(CHOOSE m \in memory_dataset : TRUE, id) = OkModel(some)

\* C5: a strategic put returns a Result, Ok or Err, and after a put that
\* returned Ok the Memory tier holds the entity put
C5_StrategicPut ==
    StrategicPutCalled =>
        /\ last.kind \in {"Ok", "Err"}
        /\ last.kind = "Ok" => MemoryHolds(LastId, last.arg)

\* C6: new_offline yields online = false, the order [Memory, None, None,
\* None], the memory slot filled and no SQL tier; new_online yields
\* online = true, and an order that names Memory and an authoritative tier
\* before the sentinel
C6_Constructors ==
    /\ last.op = "new_offline" =>
          /\ ~options.online
          /\ options.strategic_order = <<"Memory", "None", "None", "None">>
          /\ memory_dataset # {}
          /\ sqlite_dataset = {} /\ postgres_dataset = {}
    /\ last.op = "new_online" =>
          /\ options.online
          /\ memory_dataset # {}
          /\ \E i \in Positions : options.strategic_order[i] = "Memory"
          /\ \E i \in Positions :
                options.strategic_order[i] \in {"Sqlite", "Postgres", "Backend"}

\* a row carries one of the serials of id
RowHasId(row, id) ==
    \/ id.tag \in {"Local", "Mutual"} /\ row.local_id = id.local
    \/ id.tag \in {"Authorative", "Mutual"} /\ row.id = {id.auth}

\* no tier stores anything under id: no map entry whose key or whose model's
\* id equals it, no row carrying one of its serials
StoredNowhere(id) ==
    /\ \A m \in memory_dataset : \A e \in m :
          ~IDEq(e.key, id) /\ ~IDEq(e.value.meta.id, id)
    /\ \A d \in sqlite_dataset : \A row \in d.rows : ~RowHasId(row, id)
    /\ \A d \in postgres_dataset : \A row \in d.rows : ~RowHasId(row, id)

\* the last call was a get on the Memory tier, on the SQLite tier or on a
\* composite of a Memory and an SQLite tier
GetOfMemorySqlite ==
    /\ last.op = "get"
    /\ \/ last.tier \in {"memory", "sqlite"}
       \/ /\ last.tier = "strategic"
          /\ \A i \in Positions :
                options.strategic_order[i] \in {"Memory", "Sqlite"} /\ ~Unusable(i)

PutOfValidIdSucceeded ==
    /\ last.op = "put"
    /\ last.tier \in {"memory", "sqlite"}
    /\ last.kind = "Ok"
    /\ valid(LastId) = "true"

\* C8: on the Memory tier and on the SQLite tier, a successful put of an
\* entity with a valid id followed at once by a get of that id, no driver
\* failing, returns Some(entity) equal to the entity put (round trip)
C8_RoundTrip ==
    [][(/\ PutOfValidIdSucceeded
        /\ last'.op = "get"
        /\ last'.tier = last.tier
        /\ last'.id = last.id
        /\ last'.fault = {}) =>
            /\ last'.kind = "Ok"
            /\ \E m \in last'.some : \E e \in last.arg : ModelEq(m, e)]_vars

\* C9: a successful put of a model with a valid id, on the Memory tier and
\* on the SQLite tier, returns that id
C9_PutReturnsId ==
    PutOfValidIdSucceeded => last.rid = last.id

\* the Memory tier's map
MemoryMap == CHOOSE m \in memory_dataset : TRUE

TookSome == last.op = "take" /\ last.tier = "memory" /\ last.some # {}

\* C11: a take on the Memory tier returns what get would have returned and
\* leaves the map without that entry and otherwise as it was; a get of the
\* id right after a take that returned Some(e) returns Ok(None), and no
\* get, delete or take adds an entry (only a put does); and a put of the
\* taken entity with its text altered, right after the take, adds one entry
\* under the entity's id, the only one a lookup of the id finds, holding the
\* altered entity.
C11_TakeRemovesAndReturns ==
    [][/\ (last'.op = "take" /\ last'.tier = "memory") =>
            LET id == CHOOSE x \in last'.id : TRUE IN
            /\ last'.kind = "Ok"
            /\ last'.some = MapGet(MemoryMap, id)
            /\ MapGet(MemoryMap', id) = {}
            /\ MemoryMap' = {e \in MemoryMap : e.value \notin last'.some}
       /\ (TookSome /\ last'.op = "get" /\ last'.id = last.id) =>
            last'.kind = "Ok" /\ last'.some = {}
       /\ (last'.op \in {"get", "delete", "take"} /\ last'.tier = "memory") =>
            MemoryMap' \subseteq MemoryMap
       /\ (TookSome /\ last'.op = "put" /\ last'.arg \in SUBSET TakenAltered) =>
            LET e == CHOOSE x \in last'.arg : TRUE IN
            /\ last'.rid = {e.meta.id}
            /\ MemoryMap' = MemoryMap \cup {[key |-> e.meta.id, value |-> e]}
            /\ Cardinality(MapFind(MemoryMap', e.meta.id)) = 1
            /\ MapGet(MemoryMap', e.meta.id) = {e}
            /\ e.text = "Hello, universe!"]_vars

\* C11 happens: the entity put last is a taken entity with its text altered
\* (its hashcode is still the one of the text it was taken with), and the
\* map holds it under its id
C11_Witness ==
    /\ last.op = "put" /\ last.tier = "memory"
    /\ \E e \in last.arg :
          /\ e.text = "Hello, universe!"
          /\ e.meta.hashcode # calculate_hash(e)
          /\ MapGet(MemoryMap, e.meta.id) = {e}

\* C12: ID equality sees through reconciliation and nothing more: a Mutual
\* id equals an Authorative id exactly when the authoritative serials agree
\* and a Local id exactly when the local serials agree, in both argument
\* orders, and a Local id never equals an Authorative id.
C12_EqualityThroughReconciliation ==
    last.op = "eq" =>
        LET x == last.x
            y == last.y
            tags == {x.tag, y.tag}
            m == IF x.tag = "Mutual" THEN x ELSE y
            o == IF x.tag = "Mutual" THEN y ELSE x IN
        /\ tags = {"Mutual", "Authorative"} => (last.eq <=> m.auth = o.auth)
        /\ tags = {"Mutual", "Local"} => (last.eq <=> m.local = o.local)
        /\ tags = {"Local", "Authorative"} => ~last.eq

\* C12 happens: a Mutual id was compared with the Local id of its local
\* serial, the Local id on the left, and found equal
C12_Witness ==
    /\ last.op = "eq"
    /\ last.x = Local(1) /\ last.y = Mutual(1, 2)
    /\ last.eq

\* C13: whenever two ids compare equal their hashes are equal
C13_HashAgreesWithEquality ==
    (last.op = "eq" /\ last.eq) => last.hash_x = last.hash_y

\* C14: authorative, local, best, valid, into_option and best_valid_sql
\* return a value for every id: none of them panics
C14_IdOperationsTotal ==
    last.op = "classify" =>
        /\ last.kind # "panic"
        /\ last.valid \in {"true", "false"}
        /\ last.into_option \in {"None", "Reserved", "Some"}
        /\ last.best_valid_sql \in {"None", "Some"}

\* C15: for a Local or Authorative id into_option is None for the serial
\* MIN, Reserved for MAX and Some otherwise; and for every id valid is true
\* exactly when into_option is Some, exactly when best_valid_sql is Some
\* (for a Mutual id all three return, or all three panic).
C15_SentinelClassification ==
    last.op = "classify" =>
        LET x == last.x IN
        /\ x.tag \in {"Local", "Authorative"} =>
              last.into_option =
                 (IF best(x) = U64_MIN THEN "None"
                  ELSE IF best(x) = U64_MAX THEN "Reserved" ELSE "Some")
        /\ last.valid = "true" <=> last.into_option = "Some"
        /\ last.into_option = "Some" <=> last.best_valid_sql = "Some"
        /\ last.valid = "panic" <=> last.into_option = "panic"
        /\ last.into_option = "panic" <=> last.best_valid_sql = "panic"

\* C15 happens: a reserved Local id was classified
C15_Witness ==
    /\ last.op = "classify"
    /\ last.x = Local(U64_MAX)
    /\ last.into_option = "Reserved" /\ last.valid = "false"
    /\ last.best_valid_sql = "None"

\* the counter was reseeded after a serial had been generated
ReseededLate == last.op = "init_local_id_generator" /\ last.late

\* the threads whose fetch_add has run
Generated == {t \in Threads : threads[t].serial # {}}

\* the serial thread t generated
SerialOf(t) == CHOOSE n \in threads[t].serial : TRUE

\* C16: with no reseed after the first generation, the serials generated by
\* any two threads differ, and a call that started after another call had
\* returned generated a strictly greater serial.
C16_GenerationIncreasing ==
    ~ReseededLate =>
        \A t \in Generated :
            /\ \A u \in Generated \ {t} : SerialOf(t) # SerialOf(u)
            /\ \A u \in threads[t].after : SerialOf(t) > SerialOf(u)

\* C16 happens: every thread has its serial, one call started after another
\* had returned and two calls overlapped
C16_Witness ==
    /\ ~ReseededLate
    /\ Generated = Threads
    /\ \E t \in Threads : threads[t].after # {}
    /\ \E t \in Threads, u \in Threads :
          t # u /\ u \notin threads[t].after /\ t \notin threads[u].after

\* C17: a serial generated after init_local_id_generator(last_serial), the
\* reseed made before any generation, is strictly greater than last_serial
C17_ReseedNeverReissues ==
    ~ReseededLate =>
        \A t \in Generated :
            \A s \in threads[t].seed : SerialOf(t) > s

---------------------------------------------------------------------------
(* Equality and hashing of entities *)

\* a and b agree on every field but hashcode, time_created and time_modified
SameButBookkeeping(a, b) ==
    [a EXCEPT !.meta.hashcode = <<>>, !.meta.time_created = 0,
              !.meta.time_modified = 0]
    = [b EXCEPT !.meta.hashcode = <<>>, !.meta.time_created = 0,
                !.meta.time_modified = 0]

\* C18: two entities, and their Meta values, whose fields are equal except
\* for hashcode, time_created and time_modified compare equal and hash
\* identically
C18_EqualityIgnoresBookkeeping ==
    (last.op = "model_eq" /\ SameButBookkeeping(last.a, last.b)) =>
        /\ last.eq
        /\ last.meta_eq
        /\ last.hash_a = last.hash_b
        /\ last.meta_hash_a = last.meta_hash_b

---------------------------------------------------------------------------
(* Rehashing *)

\* C19: rehash stores in meta.hashcode a digest that does not depend on the
\* hashcode held before, changes no other field, gives the same entity when
\* applied twice, and rehashed returns the entity rehash leaves in place
C19_RehashStoresDigest ==
    last.op = "rehash" =>
        /\ last.in_place.meta.hashcode = last.other.meta.hashcode
        /\ last.in_place = last.other
        /\ [last.in_place EXCEPT !.meta.hashcode = last.arg.meta.hashcode]
               = last.arg
        /\ last.twice = last.in_place
        /\ last.by_value = last.in_place

\* a rehash of an entity holding a stale digest, compared with the rehash of
\* the same entity holding another hashcode
C19_Witness ==
    /\ last.op = "rehash"
    /\ last.arg.meta.hashcode # <<>>
    /\ last.arg.meta.hashcode # last.in_place.meta.hashcode
    /\ last.prior # last.arg.meta.hashcode
    /\ last.prior # last.in_place.meta.hashcode

---------------------------------------------------------------------------
(* The SELECT of standard_get *)

\* the SQL tier the last call went to
SqlTierOfLast ==
    IF last.tier = "sqlite" THEN sqlite_dataset ELSE postgres_dataset

\* the rows of db the id x addresses: by the id column for an Authorative or
\* a Mutual id, by the local_id column for a Local id
Addressed(db, x) ==
    IF x.tag = "Local" THEN {r \in db.rows : r.local_id = x.local}
    ELSE {r \in db.rows : r.id = {x.auth}}

\* a standard_get of an SQL tier that issued its statement
SqlGetIssued ==
    /\ last.op = "get"
    /\ last.tier \in {"sqlite", "postgres"}
    /\ last.kind # "panic"

\* C20: standard_get of an SQL tier filters on the id column with the
\* authoritative serial bound for an Authorative or a Mutual id, and on the
\* local_id column with the local serial bound for a Local id (only the
\* local-only SQLite tier takes one); the table is the schema name of the
\* entity and at most one row is selected, a row the id addresses
C20_SelectByVariant ==
    SqlGetIssued =>
        \A x \in last.id : \A db \in SqlTierOfLast :
            LET stmt == IF last.tier = "sqlite" THEN SqliteSelect(x)
                        ELSE PostgresSelect(x) IN
            /\ stmt.table = "schema_name"
            /\ stmt.limit = 1
            /\ x.tag \in {"Authorative", "Mutual"} =>
                   stmt.column = "id" /\ stmt.bound = x.auth
            /\ x.tag = "Local" =>
                   /\ last.tier = "sqlite"
                   /\ SqliteLocal
                   /\ stmt.column = "local_id" /\ stmt.bound = x.local
            /\ Cardinality(SelectRows(db, stmt)) <= 1
            /\ SelectRows(db, stmt) \subseteq Addressed(db, x)
            /\ (Addressed(db, x) # {}) => (SelectRows(db, stmt) # {})
            /\ last.fault = {} =>
                   /\ (Addressed(db, x) = {}) => (last.kind = "Ok" /\ last.some = {})
                   /\ (last.kind = "Ok" /\ last.some # {}) =>
                          \E r \in Addressed(db, x) : last.some = {FromRow(r)}

\* a get of a Local id on the SQLite tier that fetched the row whose
\* local_id is the serial of the id
C20_Witness ==
    /\ SqlGetIssued
    /\ last.tier = "sqlite"
    /\ last.kind = "Ok"
    /\ last.some # {}
    /\ \E x \in last.id : x.tag = "Local"

---------------------------------------------------------------------------
(* The outcome of standard_get *)

\* C21: standard_get of an SQL tier returns Ok(Some(entity)) for a fetched
\* row, Ok(None) when no row is found, and Err(Error::Database(msg)) with the
\* message of the driver for every other driver error (a failed statement, a
\* row that does not decode); no driver error comes back as Ok
C21_DriverOutcomeMapped ==
    SqlGetIssued =>
        \A x \in last.id : \A db \in SqlTierOfLast :
            /\ last.fault # {} =>
                   last.kind = "Err" /\ last.err = last.tier /\ last.some = {}
            /\ (last.fault = {} /\ Addressed(db, x) = {}) =>
                   last.kind = "Ok" /\ last.some = {}
            /\ (last.fault = {} /\ Addressed(db, x) # {}) =>
                   \E r \in Addressed(db, x) :
                       IF FromRowDecodes(r)
                       THEN last.kind = "Ok" /\ last.some = {FromRow(r)}
                       ELSE last.kind = "Err" /\ last.err = last.tier
                            /\ last.some = {}

\* a get whose statement the driver failed while the row asked for is stored
C21_Witness ==
    /\ SqlGetIssued
    /\ last.fault # {}
    /\ last.kind = "Err"
    /\ \E x \in last.id : \E db \in SqlTierOfLast : Addressed(db, x) # {}

---------------------------------------------------------------------------
(* Sentinel ids handed to an SQL tier *)

\* x is the none id (serial MIN) or the reserved id (serial MAX)
NoneId(x) == x.tag \in {"Local", "Authorative"} /\ best(x) = U64_MIN
ReservedId(x) == x.tag \in {"Local", "Authorative"} /\ best(x) = U64_MAX

\* the last call was a standard_get with a none or a reserved id, or a
\* standard_insert_or_update of a model with a reserved id
SqlSentinelCall ==
    /\ last.tier \in {"sqlite", "postgres"}
    /\ \E x \in last.id :
          \/ last.op = "get" /\ (NoneId(x) \/ ReservedId(x))
          \/ last.op = "put" /\ ReservedId(x)

\* C22: standard_get with a none or a reserved id, and
\* standard_insert_or_update with a reserved id, panic whatever the driver
\* would have done (no statement reached it), return no Result, and leave the
\* store as it was
C22_SentinelIdAborts ==
    [][SqlSentinelCall' =>
          /\ last'.kind = "panic"
          /\ last'.some = {} /\ last'.rid = {}
          /\ UNCHANGED <<sqlite_dataset, postgres_dataset>>]_vars

\* a put of a model with the reserved id into an SQLite tier that holds a
\* row: it panicked
C22_Witness ==
    /\ SqlSentinelCall
    /\ last.op = "put"
    /\ last.kind = "panic"
    /\ \E db \in sqlite_dataset : db.rows # {}

---------------------------------------------------------------------------
(* The statement of standard_insert_or_update and the id it returns *)

\* a standard_insert_or_update that handed its statement to the driver
SqlPutIssued ==
    /\ last.op = "put"
    /\ last.tier = "sqlite"
    /\ last.kind # "panic"

\* the greatest rowid of the table: that of the row inserted last
GreatestRowid(db) ==
    CHOOSE n \in {r.local_id : r \in db.rows} : \A r \in db.rows : r.local_id <= n

\* C23: standard_insert_or_update builds a plain INSERT exactly when the id
\* of the model is the none sentinel and an upsert exactly when the id is
\* valid; a successful INSERT returns the row id assigned to the inserted row
\* as a new ID, a successful upsert returns no id
C23_StatementByIdState ==
    SqlPutIssued =>
        \A m \in last.arg : \A db \in sqlite_dataset :
            LET stmt == InsertOrUpdateStatement(m) IN
            /\ (stmt.form = "INSERT") <=> NoneId(m.meta.id)
            /\ (stmt.form = "UPSERT") <=> (valid(m.meta.id) = "true")
            /\ (last.kind = "Ok" /\ stmt.form = "INSERT") =>
                   last.rid = {Local(GreatestRowid(db))}
            /\ (last.kind = "Ok" /\ stmt.form = "UPSERT") => last.rid = {}

---------------------------------------------------------------------------
(* Mutable access on an SQL tier *)

\* C24: get_mut on an SQL tier, for an id stored or not, returns an
\* "unsupported operation" error to the caller and leaves the tier as it was
C24_GetMutUnsupportedError ==
    [][(last'.op = "get_mut" /\ last'.tier \in {"sqlite", "postgres"}) =>
          /\ last'.kind = "Err"
          /\ last'.err = "unsupported operation"
          /\ UNCHANGED <<sqlite_dataset, postgres_dataset>>]_vars

---------------------------------------------------------------------------
(* Concurrent INSERTs through one pool *)

\* the callers whose INSERT was accepted and whose call has returned Ok
\* while the call of another caller was between its INSERT and its lookup
ReturnedDuringAnother ==
    {k \in Callers :
        /\ callers[k].pc = "done"
        /\ callers[k].inserted # {}
        /\ \E r \in callers[k].result : r.kind = "Ok"
        /\ \E j \in Callers \ {k} : callers[j].pc = "executed"}

\* C25: of two standard_insert_or_update calls that INSERT through the same
\* pool concurrently, each returns the row id of the row it inserted itself
C25_ConcurrentInsertOwnRowid ==
    \A k \in ReturnedDuringAnother :
        \A r \in callers[k].result :
            r.rid = {Local(n) : n \in callers[k].inserted}

---------------------------------------------------------------------------
(* Lookups of the Memory tier by the halves of a Mutual id *)

\* the entities the Memory tier holds under a Mutual id of which x is the
\* local or the authoritative half
HeldUnderMutualOf(x) ==
    {e.value : e \in {f \in MemoryMap : f.value.meta.id.tag = "Mutual"
                        /\ \/ x = Local(f.value.meta.id.local)
                           \/ x = Authorative(f.value.meta.id.auth)}}

\* C26: once an entity with the id Mutual(l, a) is put into the Memory tier,
\* get(Local(l)) and get(Authorative(a)) return it, and the map never holds
\* two entries whose keys compare equal
C26_LookupThroughReconciliation ==
    memory_dataset # {} =>
        /\ (last.op = "get" /\ last.tier = "memory") =>
               \A x \in last.id : \A e \in HeldUnderMutualOf(x) : last.some = {e}
        /\ \A e1 \in MemoryMap : \A e2 \in MemoryMap :
               IDEq(e1.key, e2.key) => e1 = e2

---------------------------------------------------------------------------
(* StrategicGet::strategic_get against the cascading dataset_get *)

\* what the cascading dataset_get returns for x in the current state, for
\* each way the drivers may behave
CascadeAnswers(x) ==
    {StrategicDatasetGet(options.strategic_order, memory_dataset, sqlite_dataset,
                         postgres_dataset, x, fs, fp) :
        fs \in Faults(sqlite_dataset # {}), fp \in Faults(postgres_dataset # {})}

\* C27: StrategicGet::strategic_get(id) returns what the cascading
\* DatasetModel<StrategicDataset>::dataset_get(id) returns on the same state
C27_StrategicGetIsDatasetGet ==
    last.op = "strategic_get" =>
        \A x \in last.id :
            \E r \in CascadeAnswers(x) :
                /\ last.kind = r.kind
                /\ last.some = r.some

---------------------------------------------------------------------------
(* A freshly constructed dataset *)

\* C28: right after MemoryDataset::new, StrategicDataset::new_offline or
\* new_online the dataset holds nothing, get(id) returns Ok(None) for every
\* id, and the first generate_local_id of the process returns Local(101)
C28_FreshDatasetEmpty ==
    /\ last.op \in {"new", "new_offline", "new_online"} =>
           \A map \in memory_dataset : map = {}
    /\ last.op = "get" => (last.kind = "Ok" /\ last.some = {})
    /\ (constructed /\ Generated # {}) =>
           \E t \in Generated : SerialOf(t) = LOCAL_SERIAL_INIT

---------------------------------------------------------------------------
(* Placeholders and bound values of standard_insert_or_update *)

\* C29: for a model whose id is none or valid, the statement of
\* standard_insert_or_update has as many placeholders as to_arguments binds
\* values, and as finish_args reports arguments
C29_PlaceholdersMatchArguments ==
    SqlPutIssued =>
        \A m \in last.arg :
            /\ InsertOrUpdateStatement(m).placeholders
                  = Len(to_arguments(m).values)
            /\ InsertOrUpdateStatement(m).placeholders
                  = to_arguments(m).num_args

---------------------------------------------------------------------------
(* ID equality as an equivalence relation *)

\* C30: the PartialEq of ID is reflexive, symmetric and transitive, chains
\* through a Mutual id included
C30_EqualityIsEquivalence ==
    last.op = "chain" =>
        /\ last.xx
        /\ last.xy = last.yx
        /\ (last.xy /\ last.yz) => last.xz

============================================================================
